---------------------------- MODULE Spec2Model ----------------------------
(***************************************************************************)
(* A model of nevergrad/functions/rl/base.py: StepOutcome and its          *)
(* conversions, PartialMultiAgentEnv, SingleAgentEnv and EnvironmentRunner.*)
(*                                                                         *)
(* Python values are encoded as follows.                                   *)
(*   dict           a function whose DOMAIN is the set of keys             *)
(*   None           the empty tuple <<>>;  a number n in a slot that may   *)
(*                  hold None is the one-element tuple <<n>>               *)
(*   info mapping   a dict; {} is EmptyDict                                *)
(* Environments and agent policies are external: every value they return   *)
(* is chosen nondeterministically from a bounded set.                       *)
(***************************************************************************)
EXTENDS Integers, Sequences, FiniteSets, TLC

VARIABLES
    \* ---- StepOutcome conversions (one call of each) ----
    o_pc,          \* "idle" | "input" | "converted" | "returned"
    o_in,          \* the multi-agent step shape handed to from_multiagent_step
    o_mid,         \* what from_multiagent_step returned: <<outcomes, done>>
    o_out,         \* what to_multiagent_step returned: <<obs, reward, done, info>>
    \* ---- EnvironmentRunner: its fields and the arguments of run ----
    env_is_gym,    \* isinstance(self.env, gym.Env)
    num_repetitions,
    max_step,      \* a number, or Inf
    n_unnamed,     \* len(agent): the number of unnamed agents given to run
    named,         \* the keys of **agents given to run
    \* ---- EnvironmentRunner.run and _run_once: position and locals ----
    r_pc,          \* the position in run / _run_once
    rep,           \* repetitions completed (the loop variable of run)
    sum_rewards,   \* run's accumulator over the episodes
    agents,        \* the keys of the agents mapping inside _run_once
    outcomes,      \* _run_once's outcomes
    done,          \* _run_once's done
    reward_sum,    \* _run_once's accumulator
    step,          \* _run_once's step counter
    actions,       \* _run_once's actions
    result,        \* what run returned
    err,           \* the exception that left run, "" when none
    \* ---- the calls the runner made on its collaborators ----
    calls,         \* agent.reset rounds and env.reset calls of this run
    ep,            \* act rounds and env.step calls of this episode, the last call,
                   \* the outcomes handed to act since the last env call, the
                   \* actions handed to the last env.step, whether the
                   \* environment has reported termination, and whether it was
                   \* stepped after that or after the step counter reached max_step
    env_paid,      \* per name, the rewards the environment returned in this episode
    ep_const,      \* per name, the total r that the environment paid it in every
                   \* episode so far (no entry when the episodes differ)
    \* ---- PartialMultiAgentEnv over a base environment ----
    base_names,    \* env.agent_names of the base environment
    p_given,       \* the keys of **agents given to the constructor
    p_pc,          \* "idle" | "new" | "built" | "raised"
    p_err,         \* the exception that left the constructor
    p_agents,      \* the keys of self.agents
    p_agent_names, \* self.agent_names
    p_outcomes,    \* self._agents_outcome
    p_env_t,       \* self.env: the steps it has made since its last reset
    p_ret,         \* what the last reset() or step() of the wrapper returned
    p_sent,        \* the action mapping the last step() gave to self.env
    orig,          \* the base environment and the agents given to the constructor:
                   \* the environment's step count, now and when the constructor
                   \* was entered, and the methods called on them since
    p_env,         \* the environment object self.env refers to
    p_held,        \* the agent objects self.agents holds
    p_call,        \* the last step(): its action_dict and the actions the
                   \* delegated agents' act returned to it
    p_produced,    \* the outcomes self.env produced for the delegated agents in
                   \* the last reset() or step() of the wrapper
    copied,        \* the wrapper returned by copy()
    \* ---- SingleAgentEnv over the wrapper ----
    s_pc,          \* "none" | "built" | "raised"
    s_err,         \* the exception that left the constructor
    s_name,        \* self._agent_name
    s_ret          \* what the last reset() or step() of the adapter returned, and
                   \* what the wrapper had returned to it

o_vars == <<o_pc, o_in, o_mid, o_out>>
r_cfg == <<env_is_gym, num_repetitions, max_step, n_unnamed, named>>
r_loc == <<rep, sum_rewards, agents, outcomes, done, reward_sum, step, actions>>
r_hist == <<calls, ep, env_paid, ep_const>>
r_vars == <<r_cfg, r_pc, r_loc, result, err, r_hist>>
p_vars == <<base_names, p_given, p_pc, p_err, p_agents, p_agent_names,
            p_outcomes, p_env_t, p_ret, p_sent, orig, p_env, p_held, p_call,
            p_produced, copied>>
s_vars == <<s_pc, s_err, s_name, s_ret>>
vars == <<o_vars, r_vars, p_vars, s_vars>>

-----------------------------------------------------------------------------
(* Bounds of the model *)

\* max_step is drawn from 0..MaxStep (or is Inf), and no episode of the model
\* runs more than MaxStep environment steps
MaxStep == 2
\* num_repetitions is drawn from 0..MaxReps
MaxReps == 2

-----------------------------------------------------------------------------
(* Python values *)

None == <<>>
Num(n) == <<n>>
EmptyDict == [k \in {} |-> 0]
ALL == "__all__"

\* dict.get(key, default)
Get(d, key, default) == IF key \in DOMAIN d THEN d[key] ELSE default

\* every dict with keys among K and values in V
Dicts(K, V) == UNION {[D -> V] : D \in SUBSET K}

\* {k: d[k] for k in d if k in K}
Restrict(d, K) == [k \in (DOMAIN d) \cap K |-> d[k]]

\* participant names of the multi-agent environments driven here
Names == {"player_0", "player_1"}

\* the values environments and agents produce
RewardValues == {0, 1}
ObsValues == {0, 1}
Actions == {0, 2}
Rewards == {Num(r) : r \in RewardValues}
SomeInfo == [k \in {"turn"} |-> 1]

-----------------------------------------------------------------------------
(* StepOutcome *)

StepOutcome(observation, reward, is_done, info) ==
    [observation |-> observation, reward |-> reward, done |-> is_done, info |-> info]

\* a slip: a missing done flag defaults to False, not to the overall flag
from_multiagent_step_plain(obs, reward, dones, info) ==
    LET outs == [agent \in DOMAIN obs |->
                    StepOutcome(obs[agent],
                                Get(reward, agent, None),
                                Get(dones, agent, FALSE),
                                Get(info, agent, EmptyDict))]
    IN  <<outs, Get(dones, ALL, FALSE)>>

\* returns <<outcomes, done["__all__"]>>
from_multiagent_step(obs, reward, dones, info) ==
    LET outs == [agent \in DOMAIN obs |->
                    StepOutcome(obs[agent],
                                Get(reward, agent, None),
                                Get(dones, agent, Get(dones, ALL, FALSE)),
                                Get(info, agent, EmptyDict))]
    IN  <<outs, Get(dones, ALL, FALSE)>>

\* returns <<obs, reward, done_dict, info>>
to_multiagent_step(outs, all_done) ==
    LET obs       == [agent \in DOMAIN outs |-> outs[agent].observation]
        reward    == [agent \in DOMAIN outs |-> outs[agent].reward]
        done_dict == [agent \in DOMAIN outs |-> outs[agent].done]
        info      == [agent \in DOMAIN outs |-> outs[agent].info]
    IN  <<obs, reward, [k \in (DOMAIN done_dict) \cup {ALL} |->
                           IF k = ALL THEN all_done ELSE done_dict[k]], info>>

-----------------------------------------------------------------------------
(* The environments the runner drives.  They are external: the model lets  *)
(* them return any step shape.  The observation is the number of steps the *)
(* environment has made since its reset.                                    *)

san == "single_agent_name"

\* float("inf"), the default of max_step
Inf == -1

\* step < max_step
Below(n, limit) == limit = Inf \/ n < limit

\* MultiAgentEnv.reset(): an observation for every participant
multi_reset == [n \in Names |-> 0]

\* MultiAgentEnv.step(action_dict) after t steps: observations for the ready
\* participants, for each of them a reward or none and its own done flag
\* when it is done, and the overall flag when the episode is over (a flag
\* left out reads as False, line 30)
multi_step(t) ==
    UNION {[obs    : {[n \in K |-> t + 1]},
            reward : Dicts(K, Rewards),
            done   : Dicts(K \cup {ALL}, {TRUE}),
            info   : {EmptyDict}] : K \in SUBSET Names}

\* Agent.act of the agent bound to a name: the policies are fixed, one always
\* plays 0 and the others always play 2
act(name, outcome) == IF name = "player_0" THEN 0 ELSE 2

\* the environment's own tally: what it has paid to each name, a null reward
\* counting for nothing
paid(tally, reward) ==
    [name \in (DOMAIN tally) \cup {n \in DOMAIN reward : reward[n] # None} |->
        Get(tally, name, 0) + (IF name \in DOMAIN reward /\ reward[name] # None
                                 THEN reward[name][1] ELSE 0)]

\* gym.Env.step(action) after t steps: <<observation, reward, done, info>>
gym_step(t) ==
    {<<t + 1, r, d, EmptyDict>> : r \in Rewards \cup {None}, d \in BOOLEAN}

-----------------------------------------------------------------------------
(* EnvironmentRunner *)

\* the calls of an episode that has not begun
NoCalls == [acts |-> 0, steps |-> 0, last |-> "", args |-> EmptyDict, sent |-> EmptyDict,
            ended |-> FALSE, late |-> FALSE]

\* nothing returned yet by a wrapper, by an adapter
NoReturn == [op |-> "none", obs |-> EmptyDict, reward |-> EmptyDict,
             done |-> EmptyDict, info |-> EmptyDict]
NoSingleReturn == [op |-> "none", observation |-> 0, reward |-> None,
                   done |-> FALSE, info |-> EmptyDict, wrapped |-> NoReturn]

\* the objects given to a constructor, no method of theirs called
Untouched(t) == [env_t |-> t, env_t0 |-> t, env_called |-> {}, agent_called |-> {}]

\* no step() of the wrapper yet
NoStep == [action_dict |-> EmptyDict, computed |-> EmptyDict]

\* copy() not called
NoCopy == [pc |-> "none", env |-> "", held |-> "", env_t |-> 0, agents |-> {},
           agent_names |-> <<>>, outcomes |-> EmptyDict]

\* no wrapper and no adapter
PartialIdle ==
    /\ base_names = <<>> /\ p_given = {} /\ p_pc = "idle" /\ p_err = ""
    /\ p_agents = {} /\ p_agent_names = <<>> /\ p_outcomes = EmptyDict
    /\ p_env_t = 0 /\ p_ret = NoReturn /\ p_sent = EmptyDict
    /\ orig = Untouched(0) /\ p_env = "" /\ p_held = "" /\ p_call = NoStep
    /\ p_produced = EmptyDict /\ copied = NoCopy
    /\ s_pc = "none" /\ s_err = "" /\ s_name = "" /\ s_ret = NoSingleReturn

\* no conversion is under way
OutcomeIdle ==
    /\ o_pc = "idle"
    /\ o_in = <<>>
    /\ o_mid = <<>>
    /\ o_out = <<>>

RunnerIdle ==
    /\ env_is_gym = FALSE /\ num_repetitions = 0 /\ max_step = 0
    /\ n_unnamed = 0 /\ named = {}
    /\ r_pc = "idle" /\ rep = 0 /\ sum_rewards = EmptyDict /\ agents = {}
    /\ outcomes = EmptyDict /\ done = FALSE /\ reward_sum = EmptyDict
    /\ step = 0 /\ actions = EmptyDict /\ result = <<>> /\ err = ""
    /\ calls = [agent_reset |-> 0, env_reset |-> 0]
    /\ ep = NoCalls
    /\ env_paid = EmptyDict /\ ep_const = EmptyDict

\* EnvironmentRunner(env, num_repetitions, max_step), and run(*agent, **agents)
\* about to be called
RunnerInit ==
    /\ env_is_gym \in BOOLEAN
    /\ num_repetitions \in 0..MaxReps
    /\ max_step \in (0..MaxStep) \cup {Inf}
    /\ n_unnamed \in 0..2
    /\ named \in SUBSET Names
    /\ r_pc = "run" /\ rep = 0 /\ sum_rewards = EmptyDict /\ agents = {}
    /\ outcomes = EmptyDict /\ done = FALSE /\ reward_sum = EmptyDict
    /\ step = 0 /\ actions = EmptyDict /\ result = <<>> /\ err = ""
    /\ calls = [agent_reset |-> 0, env_reset |-> 0]
    /\ ep = NoCalls
    /\ env_paid = EmptyDict /\ ep_const = EmptyDict
    /\ OutcomeIdle
    /\ PartialIdle

\* an exception leaves run
Raise(e) ==
    /\ r_pc' = "raised"
    /\ err' = e

GCD(a, b) == CHOOSE g \in 1..b : a % g = 0 /\ b % g = 0
                                 /\ \A h \in 1..b : (a % h = 0 /\ b % h = 0) => h <= g

\* float(value) / k as the fraction <<numerator, denominator>> in lowest terms
Quotient(value, k) == <<value \div GCD(value, k), k \div GCD(value, k)>>

\* line 150
run_begin ==
    /\ r_pc = "run"
    /\ sum_rewards' = IF named # {} THEN [name \in named |-> 0]
                                     ELSE [name \in {san} |-> 0]
    /\ rep' = 0
    /\ r_pc' = "for"
    /\ UNCHANGED <<r_cfg, agents, outcomes, done, reward_sum, step, actions,
                   result, err, r_hist, o_vars, p_vars, s_vars>>

\* line 162
single_mode == n_unnamed = 1 /\ named = {}

\* a slip: only several unnamed agents are rejected, one beside named ones is not
args_rejected_several == n_unnamed > 1 \/ named = {}

\* line 164
args_rejected == n_unnamed > 0 \/ named = {}

\* a slip: one repetition too many
more_repetitions_inclusive == rep <= num_repetitions

\* line 151: range(self.num_repetitions) is not exhausted
more_repetitions == rep < num_repetitions

\* line 151 entering the loop body, and lines 160-165 of _run_once
run_once_enter ==
    /\ r_pc = "for"
    /\ more_repetitions
    /\ ep' = NoCalls
    /\ env_paid' = EmptyDict
    /\ IF single_mode
         THEN agents' = {san} /\ r_pc' = "reset_agents" /\ err' = err
         ELSE IF args_rejected
                THEN Raise("ValueError") /\ agents' = agents
                ELSE agents' = named /\ r_pc' = "reset_agents" /\ err' = err
    /\ UNCHANGED <<r_cfg, rep, sum_rewards, outcomes, done, reward_sum, step,
                   actions, result, calls, ep_const, o_vars, p_vars, s_vars>>

\* lines 166-167
run_once_reset_agents ==
    /\ r_pc = "reset_agents"
    /\ calls' = [calls EXCEPT !.agent_reset = @ + 1]
    /\ ep' = [ep EXCEPT !.last = "agent_reset"]
    /\ r_pc' = "reset_env"
    /\ UNCHANGED <<r_cfg, r_loc, result, err, env_paid, ep_const, o_vars, p_vars, s_vars>>

\* a slip: the accumulator of the last episode is kept
new_reward_sum_kept == reward_sum

\* line 172
new_reward_sum == EmptyDict

\* lines 168-173
run_once_reset_env ==
    /\ r_pc = "reset_env"
    /\ IF env_is_gym
         THEN /\ outcomes' = [name \in {san} |-> StepOutcome(0, None, FALSE, EmptyDict)]
              /\ done' = FALSE
         ELSE LET r == from_multiagent_step(multi_reset, EmptyDict, EmptyDict, EmptyDict)
              IN  outcomes' = r[1] /\ done' = r[2]
    /\ reward_sum' = new_reward_sum
    /\ step' = 0
    /\ calls' = [calls EXCEPT !.env_reset = @ + 1]
    /\ ep' = [ep EXCEPT !.last = "env_reset"]
    /\ r_pc' = "loop"
    /\ UNCHANGED <<r_cfg, rep, sum_rewards, agents, actions, result, err,
                   env_paid, ep_const, o_vars, p_vars, s_vars>>

\* a slip: the loop goes on after the environment is done
loop_condition_no_done == Below(step, max_step)

\* a slip: the step limit is off by one
loop_condition_inclusive == (max_step = Inf \/ step <= max_step) /\ ~done

\* line 174
loop_condition == Below(step, max_step) /\ ~done

\* lines 175-177: every agent holding an outcome acts on it
run_once_act ==
    /\ r_pc = "loop"
    /\ loop_condition
    /\ IF DOMAIN outcomes \subseteq agents
         THEN /\ actions' = [name \in DOMAIN outcomes |-> act(name, outcomes[name])]
              /\ ep' = [ep EXCEPT !.acts = @ + 1, !.last = "act", !.args = outcomes]
              /\ r_pc' = "step"
              /\ err' = err
         ELSE /\ Raise("KeyError")
              /\ UNCHANGED <<actions, ep>>
    /\ UNCHANGED <<r_cfg, rep, sum_rewards, agents, outcomes, done, reward_sum,
                   step, result, calls, env_paid, ep_const, o_vars, p_vars, s_vars>>

\* lines 178-182
run_once_env_step ==
    /\ r_pc = "step"
    /\ step < MaxStep
    /\ IF env_is_gym
         THEN \E ret \in gym_step(step) :
                /\ outcomes' = [name \in {san} |->
                                   StepOutcome(ret[1], ret[2], ret[3], ret[4])]
                /\ done' = ret[3]
                /\ env_paid' = paid(env_paid, [name \in {san} |-> ret[2]])
         ELSE \E ret \in multi_step(step) :
                LET r == from_multiagent_step(ret.obs, ret.reward, ret.done, ret.info)
                IN  /\ outcomes' = r[1]
                    /\ done' = r[2]
                    /\ env_paid' = paid(env_paid, Restrict(ret.reward, DOMAIN ret.obs))
    /\ ep' = [ep EXCEPT !.steps = @ + 1, !.last = "env_step", !.args = EmptyDict,
                         !.sent = IF env_is_gym THEN [name \in {san} |-> actions[san]]
                                                ELSE actions,
                         !.ended = @ \/ done',
                         !.late = @ \/ ep.ended \/ ~Below(step, max_step)]
    /\ r_pc' = "accumulate"
    /\ UNCHANGED <<r_cfg, rep, sum_rewards, agents, reward_sum, step, actions,
                   result, err, calls, ep_const, o_vars, p_vars, s_vars>>

\* a slip: the reward of the step replaces the sum
accumulated_last(sums, outs) ==
    [name \in (DOMAIN sums) \cup (DOMAIN outs) |->
        IF name \in DOMAIN outs THEN outs[name].reward[1] ELSE sums[name]]

\* reward_sum after lines 183-185 (reward_sum is a defaultdict(float))
accumulated(sums, outs) ==
    [name \in (DOMAIN sums) \cup (DOMAIN outs) |->
        Get(sums, name, 0) + (IF name \in DOMAIN outs THEN outs[name].reward[1] ELSE 0)]

\* a slip: the assertion looks at no outcome
null_reward_unchecked(outs) == FALSE

\* line 184: the assertion fails on some outcome
null_reward(outs) == \E name \in DOMAIN outs : outs[name].reward = None

\* lines 183-186; adding None to a float is a TypeError
run_once_accumulate ==
    /\ r_pc = "accumulate"
    /\ IF null_reward(outcomes)
         THEN /\ Raise("AssertionError")
              /\ UNCHANGED <<reward_sum, step>>
         ELSE IF \E name \in DOMAIN outcomes : outcomes[name].reward = None
                THEN /\ Raise("TypeError")
                     /\ UNCHANGED <<reward_sum, step>>
                ELSE /\ reward_sum' = accumulated(reward_sum, outcomes)
                     /\ step' = step + 1
                     /\ r_pc' = "loop"
                     /\ err' = err
    /\ UNCHANGED <<r_cfg, rep, sum_rewards, agents, outcomes, done, actions,
                   result, r_hist, o_vars, p_vars, s_vars>>

\* a slip: no act once the environment is done
final_outcomes_unless_done(outs, is_done) == IF is_done THEN EmptyDict ELSE outs

\* line 187: the outcomes the final act round goes over
final_outcomes(outs, is_done) == outs

\* lines 187-188: the final act of every agent holding an outcome; what act
\* returns is dropped
run_once_final_act ==
    /\ r_pc = "loop"
    /\ ~loop_condition
    /\ IF DOMAIN final_outcomes(outcomes, done) \subseteq agents
         THEN /\ ep' = [ep EXCEPT !.acts = @ + 1, !.last = "act",
                                  !.args = final_outcomes(outcomes, done)]
              /\ r_pc' = "return"
              /\ err' = err
         ELSE /\ Raise("KeyError")
              /\ UNCHANGED ep
    /\ UNCHANGED <<r_cfg, r_loc, result, calls, env_paid, ep_const, o_vars, p_vars, s_vars>>

\* lines 153-154: sum_rewards[name] += value for every name of rewards
added(sums, rewards) ==
    [name \in DOMAIN sums |-> sums[name] + Get(rewards, name, 0)]

\* line 189, and lines 152-154 of run; the other locals of _run_once are gone
\* (and the outcomes it handed to act with them), the returned mapping stays
\* in run's `rewards`
run_once_return ==
    /\ r_pc = "return"
    /\ IF DOMAIN reward_sum \subseteq DOMAIN sum_rewards
         THEN /\ sum_rewards' = added(sum_rewards, reward_sum)
              /\ rep' = rep + 1
              /\ r_pc' = "for"
              /\ err' = err
         ELSE /\ Raise("KeyError")
              /\ UNCHANGED <<sum_rewards, rep>>
    /\ ep_const' = IF rep = 0 THEN env_paid
                   ELSE Restrict(ep_const, {name \in DOMAIN env_paid :
                                     Get(ep_const, name, -1) = env_paid[name]})
    /\ outcomes' = EmptyDict /\ done' = FALSE /\ reward_sum' = reward_sum
    /\ step' = 0 /\ actions' = EmptyDict /\ agents' = {}
    /\ ep' = [ep EXCEPT !.args = EmptyDict]
    /\ UNCHANGED <<r_cfg, result, calls, env_paid, o_vars, p_vars, s_vars>>

\* line 155
mean_rewards == [name \in DOMAIN sum_rewards |-> Quotient(sum_rewards[name], num_repetitions)]

\* lines 155-158
run_return ==
    /\ r_pc = "for"
    /\ ~more_repetitions
    /\ IF num_repetitions = 0
         THEN Raise("ZeroDivisionError") /\ result' = result
         ELSE IF env_is_gym
                THEN IF san \in DOMAIN sum_rewards
                       THEN result' = mean_rewards[san] /\ r_pc' = "returned" /\ err' = err
                       ELSE Raise("KeyError") /\ result' = result
                ELSE result' = mean_rewards /\ r_pc' = "returned" /\ err' = err
    /\ UNCHANGED <<r_cfg, r_loc, r_hist, o_vars, p_vars, s_vars>>

RunnerNext ==
    \/ run_begin
    \/ run_once_enter
    \/ run_once_reset_agents
    \/ run_once_reset_env
    \/ run_once_act
    \/ run_once_env_step
    \/ run_once_accumulate
    \/ run_once_final_act
    \/ run_once_return
    \/ run_return

Spec == RunnerInit /\ [][RunnerNext]_vars

-----------------------------------------------------------------------------
(* Properties of EnvironmentRunner *)

\* C1: with a finite max_step = m and an environment that never reports done,
\* an episode is m cycles of one act round (every agent holding an outcome
\* acts on it) followed by one env.step, and after the m-th step one more act
\* round for the agents holding an outcome, with no env.step after it.
C1_StepLimitCycles ==
    /\ r_pc = "step" =>
          /\ ep.last = "act" /\ ep.acts = ep.steps + 1
          /\ ep.args = outcomes
    /\ r_pc = "accumulate" => ep.last = "env_step" /\ ep.acts = ep.steps
    /\ (r_pc = "return" /\ max_step # Inf /\ ~done) =>
          /\ ep.steps = max_step
          /\ ep.acts = max_step + 1
          /\ ep.last = "act"
          /\ ep.args = outcomes

C1_Witness ==
    /\ r_pc = "return" /\ max_step = 2 /\ ~done
    /\ ep.steps = 2 /\ DOMAIN ep.args = {"player_1"}

\* C2: with num_repetitions = k >= 1, a participant whose episode reward (the
\* rewards the environment paid it over the episode) is exactly r in every
\* episode of the run gets exactly r from run: the episode sums are added
\* and divided by k, and no episode's accumulator leaks into the next.
C2_MeanOfEqualEpisodes ==
    (r_pc = "returned" /\ num_repetitions >= 1) =>
        \A name \in DOMAIN ep_const :
            (IF env_is_gym THEN result ELSE result[name]) = <<ep_const[name], 1>>

C2_Witness ==
    /\ r_pc = "returned" /\ num_repetitions = 2 /\ ~env_is_gym
    /\ "player_0" \in DOMAIN ep_const /\ ep_const["player_0"] = 2
    /\ "player_1" \notin DOMAIN ep_const

C3_WitnessSum ==
    /\ r_pc = "return" /\ ep.steps = 2
    /\ "player_0" \in DOMAIN reward_sum /\ reward_sum["player_0"] = 2

\* run was given no agent, several unnamed agents, or unnamed and named ones
BadArguments ==
    \/ n_unnamed = 0 /\ named = {}
    \/ n_unnamed > 1
    \/ n_unnamed >= 1 /\ named # {}

\* C9: with num_repetitions >= 1, run given no agent, several unnamed agents,
\* or unnamed and named agents fails with a ValueError before any agent
\* reset/act and any environment reset/step; given one unnamed agent alone or
\* named agents alone it raises no ValueError.
C9_ArgumentError ==
    num_repetitions >= 1 =>
        /\ (BadArguments /\ r_pc \notin {"run", "for"}) =>
              /\ r_pc = "raised" /\ err = "ValueError"
              /\ calls = [agent_reset |-> 0, env_reset |-> 0]
              /\ ep = NoCalls
        /\ (BadArguments /\ r_pc = "for") => rep = 0
        /\ ~BadArguments => err # "ValueError"

C9_Witness ==
    /\ err = "ValueError" /\ num_repetitions = 2
    /\ n_unnamed = 1 /\ named = {"player_0"}

\* C10: when an outcome returned by an env.step has a null reward, the runner
\* fails with an AssertionError at the accumulation of that step, the step
\* counter not incremented and no act or step made since; the null rewards of
\* the outcomes of reset never make it fail.
C10_NullRewardAsserts ==
    /\ (/\ ep.last = "env_step" /\ r_pc # "accumulate"
        /\ \E name \in DOMAIN outcomes : outcomes[name].reward = None)
       => r_pc = "raised" /\ err = "AssertionError" /\ step = ep.steps - 1
    /\ (ep.last = "act" /\ ep.steps >= 1) =>
          \A name \in DOMAIN ep.args : ep.args[name].reward # None
    /\ err \in {"AssertionError", "TypeError"} => ep.last = "env_step"
    /\ (r_pc = "return" /\ ep.steps = 0) =>
          /\ err = ""
          /\ \A name \in DOMAIN ep.args : ep.args[name].reward = None

C10_Witness ==
    /\ err = "AssertionError" /\ ep.steps = 2 /\ step = 1
    /\ DOMAIN outcomes = Names
    /\ outcomes["player_0"].reward = None /\ outcomes["player_1"].reward = Num(1)

C10_WitnessReset ==
    /\ r_pc = "return" /\ ep.steps = 0 /\ outcomes # EmptyDict

\* C11, the runner's part: run fails on a KeyError only over an outcome whose
\* name has no agent, never because a participant is absent from a step's
\* observations.
C11_RunnerToleratesAbsence ==
    (err = "KeyError" /\ r_pc = "raised" /\ rep < num_repetitions) =>
        ~(DOMAIN outcomes \subseteq agents)

\* the episode is under way: its resets are made
InEpisode == r_pc \in {"loop", "step", "accumulate", "return"}

\* C17: within an episode env.step is never called after the environment
\* has reported termination ("__all__" of a multi-agent environment, the
\* done flag of a classic one) nor after the step counter has reached
\* max_step; the next call on the environment is the reset of the next
\* repetition.
C17_NoStepAfterEnd ==
    /\ ~ep.late
    /\ r_pc = "step" => (~ep.ended /\ Below(ep.steps, max_step))
    /\ max_step # Inf => ep.steps <= max_step
    /\ (ep.ended /\ r_pc \in {"loop", "return"}) => done
    /\ InEpisode => calls.env_reset = rep + 1

C17_Witness ==
    /\ r_pc = "for" /\ rep = 1 /\ num_repetitions = 2 /\ max_step = 2
    /\ ep.ended /\ ep.steps = 1 /\ ep.last = "act" /\ calls.env_reset = 1

C17_WitnessLimit ==
    /\ r_pc = "return" /\ max_step = 1 /\ ~ep.ended /\ ep.steps = 1

\* C18: run with num_repetitions = k >= 1 makes k episodes one after the
\* other; in each, one round of agent resets and then one reset of the
\* environment come before the first act and the first env.step; a run that
\* returns has reset the environment k times and every agent k times.
C18_ResetsPerEpisode ==
    /\ r_pc = "reset_agents" =>
          /\ calls = [agent_reset |-> rep, env_reset |-> rep]
          /\ ep = NoCalls
    /\ r_pc = "reset_env" =>
          /\ calls = [agent_reset |-> rep + 1, env_reset |-> rep]
          /\ ep = [NoCalls EXCEPT !.last = "agent_reset"]
    /\ InEpisode =>
          /\ calls = [agent_reset |-> rep + 1, env_reset |-> rep + 1]
          /\ (ep.acts = 0 /\ ep.steps = 0) => ep.last = "env_reset"
    /\ (r_pc = "for" /\ ~BadArguments) =>
          calls = [agent_reset |-> rep, env_reset |-> rep]
    /\ (r_pc = "returned" /\ num_repetitions >= 1) =>
          /\ rep = num_repetitions
          /\ calls = [agent_reset |-> num_repetitions, env_reset |-> num_repetitions]

C18_Witness ==
    /\ r_pc = "returned" /\ num_repetitions = 2 /\ named = Names
    /\ calls = [agent_reset |-> 2, env_reset |-> 2]

\* C19: when the environment reports termination, every agent holding an
\* outcome of that last step gets one final act call on that outcome, done
\* as reported; the action it returns is not passed to the environment, and
\* the episode's reward sums are those accumulated before it.
C19_FinalAct ==
    (r_pc = "return" /\ ep.ended) =>
        /\ ep.last = "act"
        /\ ep.acts = ep.steps + 1
        /\ ep.args = outcomes
        /\ DOMAIN outcomes \subseteq agents
        /\ env_is_gym => outcomes[san].done
        /\ ep.sent = (IF env_is_gym THEN [name \in {san} |-> actions[san]] ELSE actions)
        /\ reward_sum = env_paid

C19_Witness ==
    /\ r_pc = "return" /\ ep.ended /\ max_step = 2 /\ ep.steps = 1
    /\ DOMAIN ep.args = Names /\ ep.args["player_0"].done
    /\ reward_sum = [name \in Names |-> IF name = "player_0" THEN 1 ELSE 0]

-----------------------------------------------------------------------------
(* The conversions applied to an arbitrary multi-agent step shape *)

\* the step shapes a multi-agent environment may return: any of the four
\* mappings may lack any name, and the done mapping may lack "__all__"
StepShapes ==
    [obs    : Dicts(Names, ObsValues),
     reward : Dicts(Names, Rewards),
     done   : Dicts(Names \cup {ALL}, BOOLEAN),
     info   : Dicts(Names, {SomeInfo})]

OutcomeInit ==
    /\ o_pc = "input"
    /\ o_in \in StepShapes
    /\ o_mid = <<>>
    /\ o_out = <<>>
    /\ RunnerIdle
    /\ PartialIdle

\* outcomes, done = StepOutcome.from_multiagent_step(obs, reward, done, info)
OutcomeFrom ==
    /\ o_pc = "input"
    /\ o_mid' = from_multiagent_step(o_in.obs, o_in.reward, o_in.done, o_in.info)
    /\ o_pc' = "converted"
    /\ UNCHANGED <<o_in, o_out, r_vars, p_vars, s_vars>>

\* StepOutcome.to_multiagent_step(outcomes, done)
OutcomeTo ==
    /\ o_pc = "converted"
    /\ o_out' = to_multiagent_step(o_mid[1], o_mid[2])
    /\ o_pc' = "returned"
    /\ UNCHANGED <<o_in, o_mid, r_vars, p_vars, s_vars>>

OutcomeNext == OutcomeFrom \/ OutcomeTo

SpecOutcome == OutcomeInit /\ [][OutcomeNext]_vars

-----------------------------------------------------------------------------
(* PartialMultiAgentEnv and SingleAgentEnv over a base environment with two *)
(* participants.  The base environment is external; its copy held by the    *)
(* wrapper returns any step shape for the ready participants.               *)

\* the agent_names a base environment may have
BaseNameLists == {<<"player_0", "player_1">>, <<"player_1", "player_0">>}

\* the names a caller may try to delegate
GivenNames == Names \cup {"player_2"}

Range(seq) == {seq[i] : i \in 1..Len(seq)}

\* the actions a caller of the wrapper or of the adapter supplies: none that
\* an agent's policy plays, so that it shows whose action reached the
\* environment
CallerActions == {1}

\* self.env.step(full_action_dict) after t steps: observations, rewards and
\* done flags for the ready participants, and the overall flag when the
\* episode is over (left out, it reads as False, line 33)
base_step(t) ==
    UNION {[obs    : {[n \in K |-> t + 1]},
            reward : {[n \in K |-> Num(1)]},
            done   : {d \in Dicts(K \cup {ALL}, BOOLEAN) :
                         K \subseteq DOMAIN d /\ (ALL \in DOMAIN d => d[ALL])},
            info   : {EmptyDict}] : K \in SUBSET Names}

\* the base environment has made a step before it is wrapped
PartialInit ==
    /\ base_names \in BaseNameLists
    /\ p_given = {} /\ p_pc = "new" /\ p_err = ""
    /\ p_agents = {} /\ p_agent_names = <<>> /\ p_outcomes = EmptyDict
    /\ p_env_t = 0 /\ p_ret = NoReturn /\ p_sent = EmptyDict
    /\ orig = Untouched(1)
    /\ p_env = "" /\ p_held = "" /\ p_call = NoStep
    /\ p_produced = EmptyDict /\ copied = NoCopy
    /\ s_pc = "none" /\ s_err = "" /\ s_name = "" /\ s_ret = NoSingleReturn
    /\ OutcomeIdle
    /\ RunnerIdle

\* a slip: the difference is taken the wrong way round
unknown_reversed(given, names) == Range(names) \ given

\* line 88
unknown(given, names) == given \ Range(names)

\* line 91
remaining(names, given) == SelectSeq(names, LAMBDA an : an \notin given)

\* a slip: the environment given to the constructor is kept as it is
held_env_given == "given"

\* line 85: self.env is a copy of the environment given to the constructor
held_env == "copy"

\* line 86: self.agents holds copies of the agents given to the constructor
held_agents == "copy"

\* the given objects after a method is called on self.env, which leaves that
\* environment at step count t: they see it when self.env is the given one
env_call(o, ref, op, t) ==
    IF ref = "given" THEN [o EXCEPT !.env_t = t, !.env_called = @ \cup {op}] ELSE o

\* the given objects after a method is called on the held agents of names
agent_call(o, ref, op, names) ==
    IF ref = "given" /\ names # {} THEN [o EXCEPT !.agent_called = @ \cup {op}] ELSE o

\* lines 85-87: copy() is called on the given environment and on each given
\* agent, and self.env is reset
constructed(o, given) ==
    LET o1 == IF held_env = "copy" THEN [o EXCEPT !.env_called = @ \cup {"copy"}] ELSE o
        o2 == IF held_agents = "copy" /\ given # {}
                THEN [o1 EXCEPT !.agent_called = @ \cup {"copy"}] ELSE o1
    IN  env_call(o2, held_env, "reset", 0)

\* MultiAgentEnv.with_agent(**agents), PartialMultiAgentEnv(env, **agents): lines 84-94
p_init ==
    /\ p_pc = "new"
    /\ \E given \in SUBSET GivenNames :
        /\ p_given' = given
        /\ orig' = constructed(orig, given)
        /\ IF unknown(given, base_names) # {}
             THEN /\ p_pc' = "raised" /\ p_err' = "ValueError"
                  /\ UNCHANGED <<p_agents, p_agent_names>>
             ELSE /\ p_pc' = "built" /\ p_err' = p_err
                  /\ p_agents' = given
                  /\ p_agent_names' = remaining(base_names, given)
    /\ p_env' = held_env
    /\ p_held' = held_agents
    /\ p_env_t' = 0
    /\ p_outcomes' = EmptyDict
    /\ UNCHANGED <<base_names, p_ret, p_sent, p_call, p_produced, copied,
                   s_vars, o_vars, r_vars>>

\* a slip: nothing is filtered out
exposed_all(outs) == outs

\* lines 99 and 110: the outcomes of the names that are not delegated
exposed(outs) == Restrict(outs, (DOMAIN outs) \ p_agents)

\* PartialMultiAgentEnv.reset(): lines 96-99
reset_effect ==
    LET outs == from_multiagent_step([n \in Range(base_names) |-> 0],
                                     EmptyDict, EmptyDict, EmptyDict)[1]
    IN  /\ p_env_t' = 0
        /\ p_outcomes' = Restrict(outs, p_agents)
        /\ p_produced' = Restrict(outs, p_agents)
        /\ orig' = env_call(orig, p_env, "reset", 0)
        /\ p_ret' = [NoReturn EXCEPT !.op = "reset",
                        !.obs = [name \in DOMAIN exposed(outs) |-> outs[name].observation]]
        /\ UNCHANGED <<base_names, p_given, p_pc, p_err, p_agents, p_agent_names,
                       p_sent, p_env, p_held, p_call, copied>>

\* line 106: act of every delegated agent holding a cached outcome, on that
\* outcome
computed_actions == [name \in DOMAIN p_outcomes |-> act(name, p_outcomes[name])]

\* a slip: on a name both have, the agent's action is the one kept
full_action_dict_agents_first(action_dict) ==
    [name \in (DOMAIN computed_actions) \cup (DOMAIN action_dict) |->
        IF name \in DOMAIN computed_actions THEN computed_actions[name]
                                            ELSE action_dict[name]]

\* lines 106-107
full_action_dict(action_dict) ==
    [name \in (DOMAIN computed_actions) \cup (DOMAIN action_dict) |->
        IF name \in DOMAIN action_dict THEN action_dict[name]
                                       ELSE computed_actions[name]]

\* PartialMultiAgentEnv.step(action_dict): lines 106-110, the internal
\* environment returning ret; a delegated name with no outcome is a KeyError
\* at line 109
step_effect(action_dict, ret) ==
    LET r == from_multiagent_step(ret.obs, ret.reward, ret.done, ret.info)
        out == to_multiagent_step(exposed(r[1]), r[2])
    IN  /\ p_call' = [action_dict |-> action_dict, computed |-> computed_actions]
        /\ p_sent' = full_action_dict(action_dict)
        /\ p_env_t' = p_env_t + 1
        /\ p_produced' = Restrict(r[1], p_agents)
        /\ orig' = env_call(agent_call(orig, p_held, "act", DOMAIN p_outcomes),
                            p_env, "step", p_env_t + 1)
        /\ IF p_agents \subseteq DOMAIN r[1]
             THEN /\ p_outcomes' = Restrict(r[1], p_agents)
                  /\ p_ret' = [op |-> "step", obs |-> out[1], reward |-> out[2],
                               done |-> out[3], info |-> out[4]]
             ELSE /\ p_outcomes' = p_outcomes
                  /\ p_ret' = [NoReturn EXCEPT !.op = "KeyError"]
        /\ UNCHANGED <<base_names, p_given, p_pc, p_err, p_agents, p_agent_names,
                       p_env, p_held, copied>>

p_reset ==
    /\ p_pc = "built"
    /\ reset_effect
    /\ UNCHANGED <<s_vars, o_vars, r_vars>>

p_step ==
    /\ p_pc = "built"
    /\ p_env_t < MaxStep
    /\ \E ret \in base_step(p_env_t), action_dict \in Dicts(Names, CallerActions) :
          step_effect(action_dict, ret)
    /\ UNCHANGED <<s_vars, o_vars, r_vars>>

\* PartialMultiAgentEnv.copy(): line 113 runs the constructor (lines 84-94)
\* on self.env and self.agents.  The new wrapper holds a copy of self.env,
\* copies of the held agents, and no outcome (line 94); whatever step count
\* the copy of self.env keeps, line 87 resets it.  "given" is here the
\* wrapper's own self.env and agents.
p_copy ==
    /\ p_pc = "built"
    /\ copied.pc = "none"
    /\ copied' = IF unknown(p_agents, base_names) # {}
                   THEN [NoCopy EXCEPT !.pc = "raised"]
                   ELSE [pc |-> "built",
                         env |-> held_env,
                         held |-> held_agents,
                         env_t |-> 0,
                         agents |-> p_agents,
                         agent_names |-> remaining(base_names, p_agents),
                         outcomes |-> EmptyDict]
    /\ p_env_t' = IF held_env = "given" THEN 0 ELSE p_env_t
    /\ UNCHANGED <<base_names, p_given, p_pc, p_err, p_agents, p_agent_names,
                   p_outcomes, p_ret, p_sent, orig, p_env, p_held,
                   p_call, p_produced, s_vars, o_vars, r_vars>>

\* a slip: only an empty list is refused
some_remaining(names) == Len(names) >= 1

\* line 122: the assertion holds
one_remaining(names) == Len(names) = 1

\* PartialMultiAgentEnv.as_single_agent(), SingleAgentEnv(env): lines 121-128.
\* The failing assertion formats its message from self.agent_names, which a
\* SingleAgentEnv does not have.  The copy of lines 123-124 is dropped at
\* line 128; making it (lines 112-113) runs the wrapper's constructor on
\* self.env and self.agents.  Line 127 indexes agent_names.
s_init ==
    /\ p_pc = "built"
    /\ s_pc = "none"
    /\ IF one_remaining(p_agent_names)
         THEN IF unknown(p_agents, base_names) # {}
                THEN s_pc' = "raised" /\ s_name' = s_name /\ s_err' = "ValueError"
                ELSE IF Len(p_agent_names) >= 1
                       THEN s_pc' = "built" /\ s_name' = p_agent_names[1] /\ s_err' = s_err
                       ELSE s_pc' = "raised" /\ s_name' = s_name /\ s_err' = "IndexError"
         ELSE s_pc' = "raised" /\ s_name' = s_name /\ s_err' = "AttributeError"
    /\ UNCHANGED <<s_ret, p_vars, o_vars, r_vars>>

\* SingleAgentEnv.reset(): line 131
s_reset ==
    /\ s_pc = "built"
    /\ reset_effect
    /\ s_ret' = IF s_name \in DOMAIN p_ret'.obs
                  THEN [NoSingleReturn EXCEPT !.op = "reset", !.wrapped = p_ret',
                                              !.observation = p_ret'.obs[s_name]]
                  ELSE [NoSingleReturn EXCEPT !.op = "KeyError", !.wrapped = p_ret']
    /\ UNCHANGED <<s_pc, s_err, s_name, o_vars, r_vars>>

\* a slip: & for |
single_done_both(own, overall) == own /\ overall

\* line 136: done[an] | done["__all__"]
single_done(own, overall) == own \/ overall

\* SingleAgentEnv.step(action): lines 134-136
s_step ==
    /\ s_pc = "built"
    /\ p_env_t < MaxStep
    /\ \E action \in CallerActions, ret \in base_step(p_env_t) :
          step_effect([name \in {s_name} |-> action], ret)
    /\ s_ret' = IF p_ret'.op = "step" /\ s_name \in DOMAIN p_ret'.obs
                  THEN [op |-> "step",
                        observation |-> p_ret'.obs[s_name],
                        reward |-> p_ret'.reward[s_name],
                        done |-> single_done(p_ret'.done[s_name], p_ret'.done[ALL]),
                        info |-> Get(p_ret'.info, s_name, EmptyDict),
                        wrapped |-> p_ret']
                  ELSE [NoSingleReturn EXCEPT !.op = "KeyError", !.wrapped = p_ret']
    /\ UNCHANGED <<s_pc, s_err, s_name, o_vars, r_vars>>

PartialNext ==
    \/ p_init
    \/ p_reset
    \/ p_step
    \/ p_copy
    \/ s_init
    \/ s_reset
    \/ s_step

SpecPartial == PartialInit /\ [][PartialNext]_vars

-----------------------------------------------------------------------------
(* Properties of PartialMultiAgentEnv and SingleAgentEnv *)

\* C4: constructing the wrapper with a delegation mapping that holds a name
\* outside the base environment's agent_names fails with a ValueError,
\* whatever valid names come with it; with every delegated name among
\* agent_names it does not.
C4_UnknownDelegation ==
    p_pc \in {"built", "raised"} =>
        /\ (p_pc = "raised" /\ p_err = "ValueError")
              <=> (\E name \in p_given : name \notin Range(base_names))
        /\ p_pc = "built" <=> p_given \subseteq Range(base_names)

C4_Witness ==
    /\ p_pc = "raised" /\ p_err = "ValueError"
    /\ p_given = {"player_0", "player_2"}

\* C5: narrowing the wrapper to a SingleAgentEnv fails when 0 or at least 2
\* agent names remain, and succeeds when exactly 1 remains.
C5_Narrowing ==
    s_pc # "none" =>
        /\ s_pc = "built" <=> Len(p_agent_names) = 1
        /\ s_pc = "raised" <=> (Len(p_agent_names) = 0 \/ Len(p_agent_names) >= 2)
        /\ s_pc = "built" => s_name = p_agent_names[1]

C5_Witness ==
    /\ s_pc = "raised" /\ Len(p_agent_names) = 2

C5_WitnessNone ==
    /\ s_pc = "raised" /\ Len(p_agent_names) = 0

C5_WitnessBuilt ==
    /\ s_pc = "built" /\ p_given = {"player_1"} /\ s_name = "player_0"

\* C6: the done value of SingleAgentEnv.step is the OR of the remaining
\* agent's own done flag and the "__all__" flag of the wrapped step: true
\* when only one of them is, false only when both are false.
C6_DoneIsOr ==
    s_ret.op = "step" =>
        LET own == s_ret.wrapped.done[s_name]
            overall == s_ret.wrapped.done[ALL]
        IN  /\ (own /\ ~overall) => s_ret.done
            /\ (~own /\ overall) => s_ret.done
            /\ ~s_ret.done <=> (~own /\ ~overall)

C6_Witness ==
    /\ s_ret.op = "step" /\ s_ret.done
    /\ s_ret.wrapped.done[s_name] /\ ~s_ret.wrapped.done[ALL]

C6_WitnessOverall ==
    /\ s_ret.op = "step" /\ s_ret.done
    /\ ~s_ret.wrapped.done[s_name] /\ s_ret.wrapped.done[ALL]

\* where a name stands in a list
Position(seq, name) == CHOOSE i \in 1..Len(seq) : seq[i] = name

\* C7: the wrapper's agent_names are the base environment's agent_names
\* without the delegated names, in the base order, and no delegated name is
\* a key of a mapping that reset() or step() of the wrapper returns.
C7_Remainder ==
    p_pc = "built" =>
        /\ Range(p_agent_names) = Range(base_names) \ p_given
        /\ Cardinality(Range(p_agent_names)) = Len(p_agent_names)
        /\ \A i, j \in 1..Len(p_agent_names) :
              i < j => Position(base_names, p_agent_names[i])
                         < Position(base_names, p_agent_names[j])
        /\ \A name \in p_given :
              name \notin (DOMAIN p_ret.obs) \cup (DOMAIN p_ret.reward)
                            \cup (DOMAIN p_ret.done) \cup (DOMAIN p_ret.info)

C7_Witness ==
    /\ p_pc = "built" /\ p_given = {"player_1"} /\ p_agent_names = <<"player_0">>
    /\ p_ret.op = "step" /\ p_env_t = 2
    /\ DOMAIN p_ret.obs = {"player_0"} /\ DOMAIN p_ret.done = {"player_0", ALL}
    /\ "player_1" \in DOMAIN p_outcomes

C7_WitnessOrder ==
    /\ p_pc = "built" /\ p_given = {} /\ p_agent_names = <<"player_1", "player_0">>
    /\ p_ret.op = "reset"

\* the last call on the wrapper was a step(), which returned or raised
Stepped == p_ret.op \in {"step", "KeyError"}

\* C11: when the internal environment's step returns observations that lack
\* a delegated agent's name, PartialMultiAgentEnv.step takes the agent as not
\* ready and completes without raising.
C11_AbsentIsNotReady ==
    (Stepped /\ \E name \in p_agents : name \notin DOMAIN p_produced)
        => p_ret.op = "step"

\* the second step() after a reset raising over player_1, absent while
\* player_0, delegated too, is there
C11_Witness ==
    /\ p_ret.op = "KeyError" /\ p_given = Names
    /\ DOMAIN p_produced = {"player_0"} /\ p_env_t = 2
    /\ DOMAIN p_outcomes = Names /\ p_outcomes["player_1"].observation = 1

\* C12: once the wrapper is constructed, no reset() or step() of it calls
\* reset, step or act on the environment or on the agents given to the
\* constructor: it drives its own copies, and the given environment stays at
\* the step count it had.
C12_OriginalsUntouched ==
    p_pc = "built" =>
        /\ orig.env_called \cap {"reset", "step"} = {}
        /\ orig.agent_called \cap {"reset", "act"} = {}
        /\ orig.env_t = orig.env_t0

C12_Witness ==
    /\ p_ret.op = "step" /\ p_env_t = 2 /\ p_given = {"player_1"}
    /\ DOMAIN p_call.computed = {"player_1"}
    /\ orig = [Untouched(1) EXCEPT !.env_called = {"copy"}, !.agent_called = {"copy"}]

\* C13: narrowing a wrapper whose remaining agent names are not exactly one
\* fails with an AssertionError.
C13_AssertionClass ==
    s_pc = "raised" => s_err = "AssertionError"

C13_Witness ==
    /\ s_pc = "raised" /\ s_err = "AttributeError" /\ Len(p_agent_names) = 2

\* C14: the outcome a step() of the wrapper passes to a delegated agent's act
\* is the outcome the internal environment produced for that agent in the
\* wrapper's most recent reset() or step() before it, never an older one.
\* (line 106 passes act the outcomes cached in self._agents_outcome)
C14_FreshOutcome ==
    [][p_env_t' = p_env_t + 1 =>
          \A name \in DOMAIN p_call'.computed :
              /\ name \in DOMAIN p_outcomes
              /\ name \in DOMAIN p_produced
              /\ p_outcomes[name] = p_produced[name]]_vars

\* a step() has raised after the internal environment stepped: the cache
\* still holds the outcome of the reset, which the next step() will pass on
C14_Witness ==
    /\ p_ret.op = "KeyError" /\ p_env_t = 1 /\ p_given = {"player_1"}
    /\ p_produced = EmptyDict
    /\ DOMAIN p_outcomes = {"player_1"} /\ p_outcomes["player_1"].observation = 0

\* C14, where the call before the step returned: the outcomes passed to act
\* are the ones that call produced for the delegated agents.
C14_FreshAfterReturn ==
    [][(p_env_t' = p_env_t + 1 /\ p_ret.op \in {"reset", "step"}) =>
          /\ DOMAIN p_call'.computed = p_agents
          /\ p_outcomes = p_produced]_vars

\* C15: every step() of the wrapper, a first one made right after
\* construction included, calls act on every delegated agent and gives the
\* internal environment an action for every delegated name.
C15_EveryDelegateActs ==
    Stepped => /\ DOMAIN p_call.computed = p_agents
               /\ p_agents \subseteq DOMAIN p_sent

C15_Witness ==
    /\ p_ret.op = "step" /\ p_given = {"player_1"} /\ p_produced # EmptyDict
    /\ p_call.computed = EmptyDict /\ DOMAIN p_sent = {"player_0"}

\* C16: the action mapping step() gives the internal environment is the
\* union of the delegated agents' computed actions and the caller's
\* action_dict, the caller's value being the one passed on for a key in both
\* (a delegated agent's name included).
C16_CallerPrecedence ==
    Stepped =>
        LET computed == p_call.computed
            supplied == p_call.action_dict
        IN  /\ DOMAIN p_sent = (DOMAIN computed) \cup (DOMAIN supplied)
            /\ \A name \in DOMAIN supplied : p_sent[name] = supplied[name]
            /\ \A name \in (DOMAIN computed) \ (DOMAIN supplied) :
                  p_sent[name] = computed[name]

C16_Witness ==
    /\ p_ret.op = "step" /\ p_given = {"player_1"}
    /\ p_call.computed = [name \in {"player_1"} |-> 2]
    /\ p_call.action_dict = [name \in Names |-> 1]
    /\ p_sent = [name \in Names |-> 1]

C16_WitnessUnion ==
    /\ p_ret.op = "step" /\ p_given = {"player_1"}
    /\ p_call.computed = [name \in {"player_1"} |-> 2]
    /\ p_call.action_dict = [name \in {"player_0"} |-> 1]
    /\ p_sent = [name \in Names |-> IF name = "player_0" THEN 1 ELSE 2]

\* C20: copy() returns a wrapper with the same delegated names and the same
\* agent_names, over a copy of the internal environment as it stands (the
\* steps it has made included) and copies of the held agents, a snapshot of
\* the wrapper's state with its cached outcomes; it shares no environment or
\* agent with the wrapper and leaves the wrapper as it was.
C20_CopyIsSnapshot ==
    [][(copied.pc = "none" /\ copied'.pc # "none") =>
          /\ copied'.pc = "built"
          /\ copied'.agents = p_agents
          /\ copied'.agent_names = p_agent_names
          /\ copied'.env = "copy" /\ copied'.held = "copy"
          /\ copied'.env_t = p_env_t
          /\ copied'.outcomes = p_outcomes
          /\ UNCHANGED <<p_env_t, p_agents, p_agent_names, p_outcomes, p_env, p_held>>]_vars

C20_Witness ==
    /\ copied.pc = "built" /\ copied.env_t = 0 /\ copied.outcomes = EmptyDict
    /\ p_env_t = 2 /\ DOMAIN p_outcomes = {"player_1"} /\ p_ret.op = "step"
    /\ copied.agents = {"player_1"} /\ copied.agent_names = <<"player_0">>

-----------------------------------------------------------------------------
(* Properties of the StepOutcome conversions *)

\* C8: for a step shape (obs, reward, done, info) with a non-empty obs,
\* to_multiagent_step(from_multiagent_step(obs, reward, done, info)[0],
\* done.get("__all__", False)) returns obs unchanged and a done mapping whose
\* "__all__" is done.get("__all__", False); reward and info have the keys of
\* obs, a missing reward being None and a missing info {}; each agent's done
\* is its own flag or, when missing, the "__all__" value.
C8_RoundTrip ==
    (o_pc = "returned" /\ DOMAIN o_in.obs # {}) =>
        LET overall == IF ALL \in DOMAIN o_in.done THEN o_in.done[ALL] ELSE FALSE
            ready == DOMAIN o_in.obs
        IN  /\ o_out[1] = o_in.obs
            /\ o_out[3][ALL] = overall
            /\ DOMAIN o_out[2] = ready
            /\ DOMAIN o_out[4] = ready
            /\ DOMAIN o_out[3] = ready \cup {ALL}
            /\ \A agent \in ready :
                  /\ o_out[2][agent] = IF agent \in DOMAIN o_in.reward
                                         THEN o_in.reward[agent] ELSE None
                  /\ o_out[4][agent] = IF agent \in DOMAIN o_in.info
                                         THEN o_in.info[agent] ELSE EmptyDict
                  /\ o_out[3][agent] = IF agent \in DOMAIN o_in.done
                                         THEN o_in.done[agent] ELSE overall

C8_Witness ==
    /\ o_pc = "returned"
    /\ DOMAIN o_in.obs = Names
    /\ DOMAIN o_in.reward = {"player_0"}
    /\ DOMAIN o_in.info = {"player_1"}
    /\ o_in.done = [k \in {"player_1", ALL} |-> k = ALL]
    /\ o_out[3] = [k \in Names \cup {ALL} |-> k # "player_1"]

=============================================================================
